---- MODULE Spec2Model ----
(***************************************************************************)
(* Model of the two scripts of the RPCA workflow:                          *)
(*   workflow/scripts/combine.py          format_oxford, format_talon,     *)
(*                                        format_flair, combine, main      *)
(*   workflow/scripts/extract_overlap.py  categorize_tracking, gtf, write, *)
(*                                        main                             *)
(*                                                                         *)
(* Text.  A Python string is a sequence of one-character strings.  A line  *)
(* of a file is the sequence of its delimiter-separated fields; the line   *)
(* terminator "\n", when the line has one, is the last character of the    *)
(* last field.  A file is a sequence of lines.  Python's 0-based index i   *)
(* is the TLA+ index i + 1.                                                *)
(***************************************************************************)
EXTENDS Integers, Sequences, FiniteSets, TLC

\* ------------------------------------------------------------------ bounds
\* Longest annotation file given to combine.
MaxLines == 3
\* Most data rows of an abundance file.
MaxRows == 2
\* Most lines of a tracking file.
MaxTrack == 2

\* ------------------------------------------------------------ text helpers
NL == "\n"

Digits == <<"0", "1", "2", "3", "4", "5", "6", "7", "8", "9">>

DigitVal(c) == CHOOSE d \in 0..9 : Digits[d + 1] = c

\* s[:-1]
DropLast(s) == SubSeq(s, 1, Len(s) - 1)

\* s[1:-2], the text between a leading quote and a trailing '";'
Unquote(s) == SubSeq(s, 2, Len(s) - 2)

RECURSIVE PyInt(_)
\* int(s) for a non-empty string of decimal digits
PyInt(s) ==
    IF Len(s) = 1 THEN DigitVal(s[1])
    ELSE 10 * PyInt(DropLast(s)) + DigitVal(s[Len(s)])

RECURSIVE PyStrInt(_)
\* str(n) for an int n >= 0
PyStrInt(n) ==
    IF n < 10 THEN <<Digits[n + 1]>>
    ELSE PyStrInt(n \div 10) \o <<Digits[(n % 10) + 1]>>

RECURSIVE SplitOn(_, _)
\* s.split(sep) for a one-character separator: the parts between separators
SplitOn(s, sep) ==
    IF \A i \in 1..Len(s) : s[i] # sep THEN <<s>>
    ELSE LET k == CHOOSE i \in 1..Len(s) :
                      s[i] = sep /\ \A j \in 1..(i - 1) : s[j] # sep
         IN <<SubSeq(s, 1, k - 1)>> \o SplitOn(SubSeq(s, k + 1, Len(s)), sep)

\* A Python number: its value and whether it is a float.  The floats of the
\* model are integral (the abundance fields "x.0" of combine.py line 74).
IntNum(n) == [v |-> n, fl |-> FALSE]

FloatNum(n) == [v |-> n, fl |-> TRUE]

\* float(s) for s = "<digits>.<zeros>"
PyFloat(s) == FloatNum(PyInt(SplitOn(s, ".")[1]))

\* a + b: the result is a float when either operand is
NumAdd(a, b) == [v |-> a.v + b.v, fl |-> a.fl \/ b.fl]

\* str(x): an integral float prints with ".0"
PyStr(x) == IF x.fl THEN PyStrInt(x.v) \o <<".", "0">> ELSE PyStrInt(x.v)

RECURSIVE NumSum(_)
\* sum(xs), which starts from the int 0
NumSum(xs) ==
    IF xs = <<>> THEN IntNum(0)
    ELSE NumAdd(NumSum(DropLast(xs)), xs[Len(xs)])

\* ------------------------------------------------------------ line helpers
\* line.strip('\n') on a line held as fields
StripNL(line) ==
    LET last == line[Len(line)]
    IN IF Len(last) > 0 /\ last[Len(last)] = NL
       THEN [line EXCEPT ![Len(line)] = DropLast(last)]
       ELSE line

\* line.split(): the whitespace-separated fields; the terminator is whitespace
PySplit(line) == StripNL(line)

\* line[:-1]: the line without its last character
ChopLast(line) == [line EXCEPT ![Len(line)] = DropLast(line[Len(line)])]

\* f'{text}{suffix}': characters appended to the end of the line
AddText(line, suffix) == [line EXCEPT ![Len(line)] = line[Len(line)] \o suffix]

\* f'{text} {name} "{value}";\n': one attribute and the terminator appended
AddAttr(line, name, value) ==
    line \o <<name, <<"\"">> \o value \o <<"\"", ";", NL>>>>

\* ------------------------------------------------------------ vocabulary
kTranscript == <<"t", "r", "a", "n", "s", "c", "r", "i", "p", "t">>

kExon == <<"e", "x", "o", "n">>

kGene == <<"g", "e", "n", "e">>

kTPM == <<"T", "P", "M">>

kMatchId == <<"m", "a", "t", "c", "h", "_", "i", "d">>

kGeneIdAttr == <<"g", "e", "n", "e", "_", "i", "d">>

kTranscriptIdAttr == kTranscript \o <<"_", "i", "d">>

Sentinel == <<"-">>

Quoted(x) == <<"\"">> \o x \o <<"\"", ";">>

\* An annotation line of 12 fields: feature in field 2, the gene identifier in
\* field 9 and the transcript identifier in field 11, newline-terminated.
GtfLine(feature, start, g, t) ==
    << <<"c">>, <<"s">>, feature, start, <<"9">>, <<".">>, <<"+">>, <<".">>,
       kGeneIdAttr, Quoted(g), kTranscriptIdAttr, Quoted(t) \o <<NL>> >>

T1 == <<"T", "1">>

T2 == <<"T", "2">>

G1 == <<"G", "1">>

T1_G1 == T1 \o <<"_">> \o G1

\* All sequences over S of length at most n.
SeqUpTo(S, n) == UNION {[1..k -> S] : k \in 0..n}

\* ================================================================== state
\* combine.py, combine: the annotation file, the counts dictionary, the two
\* output paths, the flag `write`, the log, the number of lines consumed.
\* files is the content of every output path; it outlives a call.
\* before holds the content of every path when the call opened its files;
\* dest records, per consumed line, the file it was written to.  These two
\* are history variables.
VARIABLES GTF, counts, output, missing_output, files, write, logged, pos, pc,
          before, dest

combineVars == <<GTF, counts, output, missing_output, files, write, logged,
                 pos, pc, before, dest>>

\* combine.py, main: snakemake.output, the two output paths of each of the
\* three pipelines.
VARIABLES snakemake_output

mainVars == <<snakemake_output>>

\* The two files a call of combine has open, and what they held when the
\* call opened them.
outfile == files[output]

removed_out == files[missing_output]

outfile_before == before[output]

removed_before == before[missing_output]

\* combine.py, format_oxford / format_talon / format_flair: the abundance
\* file (its header line first), the reader that runs, the dictionary being
\* built, the number of lines consumed.
VARIABLES abundance, reader, adict, apos, apc

abundanceVars == <<abundance, reader, adict, apos, apc>>

\* extract_overlap.py, categorize_tracking: the tracking file, the three
\* dictionaries being built, the number of lines consumed.  A dictionary that
\* is iterated is the sequence of its items [k, v] in insertion order.
VARIABLES tracking, three_match, two_match, no_match, tpos, tpc

trackingVars == <<tracking, three_match, two_match, no_match, tpos, tpc>>

\* extract_overlap.py, gtf, write and main: the three annotation files, the
\* three dictionaries gtf returns for them, the bucket given to write, the
\* path given to write, the content of every output path, the number of
\* groups written.
VARIABLES annotation, oxford, flair, talon, tracking_dict, outpath, outputs,
          mpos, mpc

matchVars == <<annotation, oxford, flair, talon, tracking_dict, outpath,
               outputs, mpos, mpc>>

\* The file a call of write has open.
out == outputs[outpath]

vars == <<combineVars, mainVars, abundanceVars, trackingVars, matchVars>>

\* The state of a script that does not run.
IdleCombine ==
    /\ GTF = <<>> /\ counts = <<>> /\ output = "none"
    /\ missing_output = "none" /\ files = <<>>
    /\ write = TRUE /\ logged = <<>> /\ pos = 0 /\ pc = "idle"
    /\ before = <<>> /\ dest = <<>>

IdleMain == snakemake_output = <<>>

IdleAbundance ==
    /\ abundance = <<>> /\ reader = "none" /\ adict = <<>> /\ apos = 0
    /\ apc = "idle"

IdleTracking ==
    /\ tracking = <<>> /\ three_match = <<>> /\ two_match = <<>>
    /\ no_match = <<>> /\ tpos = 0 /\ tpc = "idle"

IdleMatch ==
    /\ annotation = <<>> /\ oxford = <<>> /\ flair = <<>> /\ talon = <<>>
    /\ tracking_dict = <<>> /\ outpath = "none" /\ outputs = <<>>
    /\ mpos = 0 /\ mpc = "idle"

\* ================================================================ combine
\* The lines of the annotation files given to combine, newline-terminated
\* as the pipelines write them: two transcript lines and a dependent line.
GtfLines ==
    { GtfLine(kTranscript, <<"1">>, G1, T1),
      GtfLine(kTranscript, <<"2">>, G1, T2),
      GtfLine(kExon, <<"3">>, G1, T1) }

CountKeys == {T1, T2, T1_G1}

\* The dictionaries given to combine as counts; their values are ints, as
\* format_oxford and format_talon give, or floats, as format_flair gives.
CountDicts ==
    UNION { [K -> {IntNum(0), IntNum(3)}] : K \in SUBSET CountKeys }
    \cup UNION { [K -> {FloatNum(0), FloatNum(3)}] : K \in SUBSET CountKeys }

\* A line left in an output file by an earlier call.
StaleLine == GtfLine(kExon, <<"7">>, G1, T2)

EarlierContents == {<<>>, <<StaleLine>>}

\* open(path, 'w'): the file is emptied
OpenWrite(content) == <<>>

\* Mutation of OpenAppend: the append-mode file is opened as if with 'w'.
OpenAppendTruncates(content) == <<>>

\* open(path, 'a'): the file keeps what it holds
OpenAppend(content) == content

\* Mutation of FileWrite: each write replaces what was written before.
FileWriteOverwrites(content, text) == <<text>>

\* file.write(text): the text is added at the end of the open file
FileWrite(content, text) == Append(content, text)

\* line.split()[2] == 'transcript'
IsTranscript(line) == PySplit(line)[3] = kTranscript

\* The try/except of a transcript line: the primary identifier is looked up;
\* a zero count removes the transcript; a KeyError tries the identifier
\* '<transcript id>_<gene id>' and takes its count as it is; a second
\* KeyError removes the transcript.
HeaderOutcome(line, cnts) ==
    LET transcript_id == Unquote(PySplit(line)[12])
        gene_id == Unquote(PySplit(line)[10])
        new_transcript_id == transcript_id \o <<"_">> \o gene_id
    IN IF transcript_id \in DOMAIN cnts
       THEN IF cnts[transcript_id].v = 0
            THEN [keep |-> FALSE, count |-> cnts[transcript_id],
                  log |-> <<[level |-> "WARNING", first |-> transcript_id,
                             second |-> <<>>]>>]
            ELSE [keep |-> TRUE, count |-> cnts[transcript_id], log |-> <<>>]
       ELSE IF new_transcript_id \in DOMAIN cnts
            THEN [keep |-> TRUE, count |-> cnts[new_transcript_id],
                  log |-> <<>>]
            ELSE [keep |-> FALSE, count |-> IntNum(0),
                  log |-> <<[level |-> "ERROR", first |-> transcript_id,
                             second |-> new_transcript_id]>>]

\* removed_out.write(f'{line[:-1]}\n')
RemovedText(line) == AddText(ChopLast(line), <<NL>>)

\* outfile.write(f'{line[:-1]} TPM "{str(count)}";\n')
CombinedText(line, count) == AddAttr(ChopLast(line), kTPM, PyStr(count))

\* Mutation of DependentTarget: the flag is ignored.
DependentTargetAlwaysOutfile(w) == "outfile"

\* The file a line that is not a transcript goes to.
DependentTarget(w) == IF w THEN "outfile" ELSE "removed_out"

\* The two output paths of a call of combine.
OutputPath == "combined.gtf"

MissingOutputPath == "removed.gtf"

\* combine is called with an annotation file, a dictionary and two paths.
InitCombine ==
    /\ IdleMain
    /\ IdleAbundance
    /\ IdleTracking
    /\ IdleMatch
    /\ GTF \in SeqUpTo(GtfLines, MaxLines)
    /\ counts \in CountDicts
    /\ output = OutputPath
    /\ missing_output = MissingOutputPath
    /\ files \in [{OutputPath, MissingOutputPath} -> EarlierContents]
    /\ write = TRUE
    /\ logged = <<>>
    /\ pos = 0
    /\ pc = "call"
    /\ before = files
    /\ dest = <<>>

\* with open(gtf_file) as GTF, open(output, 'w') as outfile,
\*      open(missing_output, 'a') as removed_out; write = True
CombineOpen ==
    /\ pc = "call"
    /\ files' = [files EXCEPT ![output] = OpenWrite(@),
                              ![missing_output] = OpenAppend(@)]
    /\ write' = TRUE
    /\ pos' = 0
    /\ pc' = "loop"
    /\ before' = files
    /\ dest' = <<>>
    /\ UNCHANGED <<GTF, counts, output, missing_output, logged>>

\* One iteration of `for line in GTF` on a transcript line.
CombineTranscript ==
    /\ pc = "loop"
    /\ pos < Len(GTF)
    /\ IsTranscript(GTF[pos + 1])
    /\ LET line == GTF[pos + 1]
           r == HeaderOutcome(line, counts)
       IN /\ logged' = logged \o r.log
          /\ write' = r.keep
          /\ IF r.keep
             THEN /\ files' = [files EXCEPT ![output] =
                                  FileWrite(@, CombinedText(line, r.count))]
                  /\ dest' = Append(dest, "outfile")
             ELSE /\ files' = [files EXCEPT ![missing_output] =
                                  FileWrite(@, RemovedText(line))]
                  /\ dest' = Append(dest, "removed_out")
    /\ pos' = pos + 1
    /\ UNCHANGED <<GTF, counts, output, missing_output, pc, before>>

\* One iteration of `for line in GTF` on any other line.
CombineDependent ==
    /\ pc = "loop"
    /\ pos < Len(GTF)
    /\ ~IsTranscript(GTF[pos + 1])
    /\ LET line == GTF[pos + 1]
           target == DependentTarget(write)
       IN /\ dest' = Append(dest, target)
          /\ IF target = "outfile"
             THEN files' = [files EXCEPT ![output] = FileWrite(@, line)]
             ELSE files' = [files EXCEPT ![missing_output] =
                              FileWrite(@, line)]
    /\ pos' = pos + 1
    /\ UNCHANGED <<GTF, counts, output, missing_output, write, logged, pc,
                   before>>

\* The loop ends and the three files are closed.
CombineClose ==
    /\ pc = "loop"
    /\ pos = Len(GTF)
    /\ pc' = "done"
    /\ UNCHANGED <<GTF, counts, output, missing_output, files, write, logged,
                   pos, before, dest>>

\* The variables of the scripts other than combine.
notCombine == <<mainVars, abundanceVars, trackingVars, matchVars>>

NextCombine ==
    \/ CombineOpen /\ UNCHANGED notCombine
    \/ CombineTranscript /\ UNCHANGED notCombine
    \/ CombineDependent /\ UNCHANGED notCombine
    \/ CombineClose /\ UNCHANGED notCombine

Spec == InitCombine /\ [][NextCombine]_vars

\* ====================================================== abundance readers
\* Mutation of DictSet: a key already present keeps its value.
DictSetKeepsFirst(d, k, v) ==
    [x \in DOMAIN d \cup {k} |-> IF x \in DOMAIN d THEN d[x] ELSE v]

\* d[k] = v
DictSet(d, k, v) == [x \in DOMAIN d \cup {k} |-> IF x = k THEN v ELSE d[x]]

\* [f(x) for x in xs]
IntAll(xs) == [i \in 1..Len(xs) |-> IntNum(PyInt(xs[i]))]

FloatAll(xs) == [i \in 1..Len(xs) |-> PyFloat(xs[i])]

NotEmpty(x) == x # <<>>

\* xs[n:]
From(xs, n) == SubSeq(xs, n + 1, Len(xs))

\* sum([int(count) for count in line[1:] if count != ''])
OxfordCounts(fields) == NumSum(IntAll(SelectSeq(From(fields, 1), NotEmpty)))

\* sum(map(int, line[11:]))
TalonCounts(fields) == NumSum(IntAll(From(fields, 11)))

\* sum(map(float, line[1:]))
FlairCounts(fields) == NumSum(FloatAll(From(fields, 1)))

AbundanceIds == {T1, T2}

\* The data rows of each format, newline-terminated.  A talon row has eleven
\* leading columns, the identifier in column 3.
OxfordRow(id, a, b) == <<id, a, b \o <<NL>> >>

TalonRow(id, a, b) ==
    << <<"5">>, <<"6">>, <<"g">>, id, <<"a">>, <<"b">>, <<"4">>, <<"8">>,
       <<"K">>, <<"K">>, <<"K">>, a, b \o <<NL>> >>

FlairRow(id, a, b) == <<id, a, b \o <<NL>> >>

OxfordRows ==
    { OxfordRow(id, a, b) :
        id \in AbundanceIds, a \in {<<>>, <<"2">>, <<"1", "3">>},
        b \in {<<>>, <<"2">>, <<"1", "3">>} }

TalonRows ==
    { TalonRow(id, a, b) :
        id \in AbundanceIds, a \in {<<"0">>, <<"2">>, <<"1", "3">>},
        b \in {<<"0">>, <<"2">>, <<"1", "3">>} }

FlairRows ==
    { FlairRow(id, a, b) :
        id \in AbundanceIds,
        a \in {<<"0", ".", "0">>, <<"3", ".", "0">>, <<"1", "2", ".", "0">>},
        b \in {<<"0", ".", "0">>, <<"3", ".", "0">>, <<"1", "2", ".", "0">>} }

RowsOf(r) ==
    IF r = "oxford" THEN OxfordRows
    ELSE IF r = "talon" THEN TalonRows ELSE FlairRows

\* The header line; its column names may be numbers.
HeaderRow == << <<"i", "d">>, <<"7">>, <<"7", NL>> >>

InitAbundance ==
    /\ IdleCombine
    /\ IdleMain
    /\ IdleTracking
    /\ IdleMatch
    /\ reader \in {"oxford", "talon", "flair"}
    /\ \E rows \in SeqUpTo(RowsOf(reader), MaxRows) :
          abundance = <<HeaderRow>> \o rows
    /\ adict = <<>>
    /\ apos = 0
    /\ apc = "call"

\* x_dict = {}; open(abundance); next(file)
ReadHeader ==
    /\ apc = "call"
    /\ adict' = <<>>
    /\ apos' = 1
    /\ apc' = "loop"
    /\ UNCHANGED <<abundance, reader>>

\* format_oxford, one iteration of `for line in file`
ReadOxford ==
    /\ apc = "loop" /\ reader = "oxford" /\ apos < Len(abundance)
    /\ LET line == StripNL(abundance[apos + 1])
           transcript_id == line[1]
       IN adict' = DictSet(adict, transcript_id, OxfordCounts(line))
    /\ apos' = apos + 1
    /\ UNCHANGED <<abundance, reader, apc>>

\* format_talon, one iteration of `for line in file`
ReadTalon ==
    /\ apc = "loop" /\ reader = "talon" /\ apos < Len(abundance)
    /\ LET line == StripNL(abundance[apos + 1])
           transcript_id == line[4]
       IN adict' = DictSet(adict, transcript_id, TalonCounts(line))
    /\ apos' = apos + 1
    /\ UNCHANGED <<abundance, reader, apc>>

\* format_flair, one iteration of `for line in file`
ReadFlair ==
    /\ apc = "loop" /\ reader = "flair" /\ apos < Len(abundance)
    /\ LET line == StripNL(abundance[apos + 1])
           transcript_id == line[1]
       IN adict' = DictSet(adict, transcript_id, FlairCounts(line))
    /\ apos' = apos + 1
    /\ UNCHANGED <<abundance, reader, apc>>

\* return x_dict
ReadReturn ==
    /\ apc = "loop" /\ apos = Len(abundance)
    /\ apc' = "done"
    /\ UNCHANGED <<abundance, reader, adict, apos>>

\* The variables of the scripts other than the readers.
notAbundance == <<combineVars, mainVars, trackingVars, matchVars>>

NextAbundance ==
    \/ ReadHeader /\ UNCHANGED notAbundance
    \/ ReadOxford /\ UNCHANGED notAbundance
    \/ ReadTalon /\ UNCHANGED notAbundance
    \/ ReadFlair /\ UNCHANGED notAbundance
    \/ ReadReturn /\ UNCHANGED notAbundance

SpecAbundance == InitAbundance /\ [][NextAbundance]_vars

\* =================================================================== main
\* main runs the three pipelines in this order.
Pipelines == <<"flair", "oxford", "talon">>

NextPipeline(r) == IF r = "flair" THEN "oxford" ELSE "talon"

\* A combined file and a file of removed transcripts per pipeline.
OwnCombined(r) ==
    IF r = "flair" THEN "flair_combined.gtf"
    ELSE IF r = "oxford" THEN "oxford_combined.gtf" ELSE "talon_combined.gtf"

OwnRemoved(r) ==
    IF r = "flair" THEN "flair_removed.gtf"
    ELSE IF r = "oxford" THEN "oxford_removed.gtf" ELSE "talon_removed.gtf"

\* snakemake.output: each pipeline has its own two paths, or the pipelines
\* share the path of the removed transcripts, or they share both paths.
SnakemakeOutputs ==
    { [r \in {"flair", "oxford", "talon"} |->
          [combined |-> OwnCombined(r), removed |-> OwnRemoved(r)]],
      [r \in {"flair", "oxford", "talon"} |->
          [combined |-> OwnCombined(r), removed |-> MissingOutputPath]],
      [r \in {"flair", "oxford", "talon"} |->
          [combined |-> OutputPath, removed |-> MissingOutputPath]] }

\* The paths snakemake.output names.
PathsOf(o) == UNION { {o[r].combined, o[r].removed} : r \in DOMAIN o }

\* A count field of each format that is zero, and one that is not.
ZeroField(r) ==
    IF r = "flair" THEN <<"0", ".", "0">>
    ELSE IF r = "oxford" THEN <<>> ELSE <<"0">>

CountField(r) == IF r = "flair" THEN <<"3", ".", "0">> ELSE <<"2">>

Row(r, id, a, b) ==
    IF r = "oxford" THEN OxfordRow(id, a, b)
    ELSE IF r = "talon" THEN TalonRow(id, a, b) ELSE FlairRow(id, a, b)

\* snakemake.input.<pipeline>_count: the abundance files main reads.
MainAbundanceFiles(r) ==
    LET z == ZeroField(r)
        c == CountField(r)
    IN { <<HeaderRow>>,
         <<HeaderRow, Row(r, T1, c, z)>>,
         <<HeaderRow, Row(r, T1, z, z)>>,
         <<HeaderRow, Row(r, T1_G1, z, z)>>,
         <<HeaderRow, Row(r, T1_G1, c, c)>>,
         <<HeaderRow, Row(r, T2, z, z), Row(r, T1, c, z)>> }

\* snakemake.input.<pipeline>_transcripts: the annotation files main reads.
MainGtfFiles ==
    { << GtfLine(kTranscript, <<"1">>, G1, T1), GtfLine(kExon, <<"3">>, G1, T1) >>,
      << GtfLine(kExon, <<"3">>, G1, T1), GtfLine(kTranscript, <<"1">>, G1, T1) >>,
      << GtfLine(kTranscript, <<"2">>, G1, T2), GtfLine(kExon, <<"3">>, G1, T1),
         GtfLine(kTranscript, <<"1">>, G1, T1) >> }

\* main starts: flair_dict = format_flair(flair_abundance) is called.
InitMain ==
    /\ IdleTracking
    /\ IdleMatch
    /\ snakemake_output \in SnakemakeOutputs
    /\ \E earlier \in EarlierContents :
          files = [p \in PathsOf(snakemake_output) |-> earlier]
    /\ before = files
    /\ GTF = <<>> /\ counts = <<>> /\ output = "none"
    /\ missing_output = "none" /\ write = TRUE /\ logged = <<>>
    /\ pos = 0 /\ pc = "idle" /\ dest = <<>>
    /\ reader = Pipelines[1]
    /\ abundance \in MainAbundanceFiles(reader)
    /\ adict = <<>>
    /\ apos = 0
    /\ apc = "call"

\* combine(<pipeline>_gtf, <pipeline>_dict, snakemake.output.<pipeline>_combined,
\*         snakemake.output.<pipeline>_removed)
MainCombine ==
    /\ apc = "done"
    /\ pc = "idle"
    /\ GTF' \in MainGtfFiles
    /\ counts' = adict
    /\ output' = snakemake_output[reader].combined
    /\ missing_output' = snakemake_output[reader].removed
    /\ pc' = "call"
    /\ UNCHANGED <<files, write, logged, pos, before, dest>>
    /\ UNCHANGED <<mainVars, abundanceVars>>

\* flair_dict.clear() or ox_dict.clear(), then the next pipeline's reader is
\* called on its abundance file.  combine has returned; its local names
\* are gone.
MainClear ==
    /\ pc = "done"
    /\ reader # Pipelines[3]
    /\ adict' = <<>>
    /\ counts' = <<>>
    /\ reader' = NextPipeline(reader)
    /\ abundance' \in MainAbundanceFiles(reader')
    /\ apos' = 0
    /\ apc' = "call"
    /\ pc' = "idle"
    /\ GTF' = <<>> /\ output' = "none" /\ missing_output' = "none"
    /\ write' = TRUE /\ pos' = 0 /\ dest' = <<>> /\ before' = files
    /\ UNCHANGED <<files, logged, mainVars>>

\* The variables main and the functions it calls leave alone.
notMain == <<trackingVars, matchVars>>

NextMain ==
    \/ ReadHeader /\ UNCHANGED notAbundance
    \/ ReadOxford /\ UNCHANGED notAbundance
    \/ ReadTalon /\ UNCHANGED notAbundance
    \/ ReadFlair /\ UNCHANGED notAbundance
    \/ ReadReturn /\ UNCHANGED notAbundance
    \/ MainCombine /\ UNCHANGED notMain
    \/ CombineOpen /\ UNCHANGED notCombine
    \/ CombineTranscript /\ UNCHANGED notCombine
    \/ CombineDependent /\ UNCHANGED notCombine
    \/ CombineClose /\ UNCHANGED notCombine
    \/ MainClear /\ UNCHANGED notMain

SpecMain == InitMain /\ [][NextMain]_vars

\* ==================================================== categorize_tracking
\* Mutation of ItemSet: the dictionary is rebound to the one new item.
ItemSetRebinds(d, k, v) == <<[k |-> k, v |-> v]>>

\* d[k] = v on an insertion-ordered dictionary: a key already present keeps
\* its place and takes the new value, a new key goes last.
ItemSet(d, k, v) ==
    IF \E i \in 1..Len(d) : d[i].k = k
    THEN [i \in 1..Len(d) |-> IF d[i].k = k THEN [k |-> k, v |-> v] ELSE d[i]]
    ELSE Append(d, [k |-> k, v |-> v])

HasKey(d, k) == \E i \in 1..Len(d) : d[i].k = k

\* The loop over line[4::]: '-' stays as it is, any other field gives the
\* second of its '|'-separated parts.
TranscriptIds(transcripts) ==
    [i \in 1..Len(transcripts) |->
        IF transcripts[i] = Sentinel THEN transcripts[i]
        ELSE SplitOn(transcripts[i], "|")[2]]

\* count: the number of fields equal to '-'
SentinelCount(transcripts) ==
    Cardinality({i \in 1..Len(transcripts) : transcripts[i] = Sentinel})

\* Mutation of BucketOf: the tests for one and two sentinels are exchanged.
BucketOfSwapped(count) ==
    IF count = 2 THEN "two_match"
    ELSE IF count = 1 THEN "no_match" ELSE "three_match"

\* if count == 1 ... elif count == 2 ... else
BucketOf(count) ==
    IF count = 1 THEN "two_match"
    ELSE IF count = 2 THEN "no_match" ELSE "three_match"

GroupIds == {<<"C", "1">>, <<"C", "2">>}

\* The membership fields of the three pipelines: '-', or a field
\* '<query>:<gene>|<transcript>' with or without further '|' parts.
SlotFields ==
    << {Sentinel, <<"q", ":", "g", "|", "A", "1", "|", "2">>},
       {Sentinel, <<"q", ":", "g", "|", "B", "1">>,
        <<"q", ":", "g", "|", "B", "1", "|", "2", "|", "0">>},
       {Sentinel, <<"q", ":", "g", "|", "C", "1">>} >>

\* The lines of a tracking file, newline-terminated: the group identifier,
\* three more columns, the three membership fields.  The tool that writes
\* the file puts at least one transcript in every line.
TrackingLines ==
    { <<g, <<"X">>, <<"g">>, <<"=">>, a, b, c \o <<NL>> >> :
        g \in GroupIds, a \in SlotFields[1], b \in SlotFields[2],
        c \in SlotFields[3] }
    \ { <<g, <<"X">>, <<"g">>, <<"=">>, Sentinel, Sentinel,
          Sentinel \o <<NL>> >> : g \in GroupIds }

InitTracking ==
    /\ IdleCombine
    /\ IdleMain
    /\ IdleAbundance
    /\ IdleMatch
    /\ tracking \in SeqUpTo(TrackingLines, MaxTrack)
    /\ three_match = <<>>
    /\ two_match = <<>>
    /\ no_match = <<>>
    /\ tpos = 0
    /\ tpc = "call"

\* open(tracking_file); three_match, two_match, no_match = {}, {}, {}
CategorizeOpen ==
    /\ tpc = "call"
    /\ three_match' = <<>>
    /\ two_match' = <<>>
    /\ no_match' = <<>>
    /\ tpos' = 0
    /\ tpc' = "loop"
    /\ UNCHANGED tracking

\* One iteration of `for line in tracking`.
CategorizeLine ==
    /\ tpc = "loop"
    /\ tpos < Len(tracking)
    /\ LET line == PySplit(tracking[tpos + 1])
           transcripts == From(line, 4)
           transcript_ids == TranscriptIds(transcripts)
           bucket == BucketOf(SentinelCount(transcripts))
       IN /\ two_match' = IF bucket = "two_match"
                          THEN ItemSet(two_match, line[1], transcript_ids)
                          ELSE two_match
          /\ no_match' = IF bucket = "no_match"
                         THEN ItemSet(no_match, line[1], transcript_ids)
                         ELSE no_match
          /\ three_match' = IF bucket = "three_match"
                            THEN ItemSet(three_match, line[1], transcript_ids)
                            ELSE three_match
    /\ tpos' = tpos + 1
    /\ UNCHANGED <<tracking, tpc>>

\* return three_match, two_match, no_match
CategorizeReturn ==
    /\ tpc = "loop"
    /\ tpos = Len(tracking)
    /\ tpc' = "done"
    /\ UNCHANGED <<tracking, three_match, two_match, no_match, tpos>>

\* The variables of the scripts other than categorize_tracking.
notTracking == <<combineVars, mainVars, abundanceVars, matchVars>>

NextTracking ==
    \/ CategorizeOpen /\ UNCHANGED notTracking
    \/ CategorizeLine /\ UNCHANGED notTracking
    \/ CategorizeReturn /\ UNCHANGED notTracking

SpecTracking == InitTracking /\ [][NextTracking]_vars

\* ========================================================== gtf and write
\* gtf_dict[k].append(x) on a defaultdict(list)
ListAppend(d, k, x) ==
    [y \in DOMAIN d \cup {k} |->
        IF y = k THEN (IF k \in DOMAIN d THEN Append(d[k], x) ELSE <<x>>)
        ELSE d[y]]

\* line.startswith("#")
IsComment(line) == Len(line[1]) > 0 /\ line[1][1] = "#"

RECURSIVE GtfDict(_)
\* gtf(file): comment lines and gene lines are skipped, every other line is
\* appended, without its terminator, to the list of its transcript identifier.
GtfDict(file) ==
    IF file = <<>> THEN <<>>
    ELSE LET d == GtfDict(DropLast(file))
             line == file[Len(file)]
         IN IF IsComment(line) THEN d
            ELSE IF PySplit(line)[3] = kGene THEN d
            ELSE ListAppend(d, Unquote(PySplit(line)[12]), StripNL(line))

\* d[k] read on a defaultdict(list): the list of k, the empty list when k is
\* missing.
DefaultGet(d, k) == IF k \in DOMAIN d THEN d[k] ELSE <<>>

\* The dictionary after d[k] was read: a missing key has been inserted with
\* the empty list.
DefaultTouch(d, k) ==
    IF k \in DOMAIN d THEN d ELSE [y \in DOMAIN d \cup {k} |->
                                      IF y = k THEN <<>> ELSE d[y]]

\* Mutation of Selected: the last pipeline present is taken.
SelectedLast(ids) ==
    IF ids[3] # Sentinel THEN 3 ELSE IF ids[2] # Sentinel THEN 2 ELSE 1

\* The slot write takes its record from: if ids[0] != '-' ... elif
\* ids[1] != '-' ... else
Selected(ids) ==
    IF ids[1] # Sentinel THEN 1 ELSE IF ids[2] # Sentinel THEN 2 ELSE 3

\* f'{line} match_id "{tcons_id}";\n' for every line of a record
Tagged(lines, tcons_id) ==
    [i \in 1..Len(lines) |-> AddAttr(lines[i], kMatchId, tcons_id)]

A1 == <<"A", "1">>

A2 == <<"A", "2">>

B1 == <<"B", "1">>

C1 == <<"C", "1">>

CommentLine == << <<"#", "c", NL>> >>

\* A gene line has no transcript identifier: ten fields.
GeneLine ==
    << <<"c">>, <<"s">>, kGene, <<"1">>, <<"9">>, <<".">>, <<"+">>, <<".">>,
       kGeneIdAttr, Quoted(G1) \o <<NL>> >>

\* Annotation files of a pipeline whose tracked transcript is t: one without
\* a record of t, one with a record of t and one of another transcript.
AnnotationFiles(t) ==
    { <<CommentLine, GeneLine, GtfLine(kTranscript, <<"1">>, G1, A2)>>,
      <<CommentLine, GeneLine, GtfLine(kTranscript, <<"1">>, G1, t),
        GtfLine(kExon, <<"2">>, G1, t), GtfLine(kTranscript, <<"3">>, G1, A2)>> }

\* One more: the exon of t comes after the other transcript's line.
SplitRecordFile(t) ==
    <<GtfLine(kTranscript, <<"1">>, G1, t),
      GtfLine(kTranscript, <<"3">>, G1, A2), GtfLine(kExon, <<"2">>, G1, t)>>

\* The tracking lines main reads: as TrackingLines, each membership field
\* '-' or one field of its pipeline.
MainTrackingLines ==
    { <<g, <<"X">>, <<"g">>, <<"=">>, a, b, c \o <<NL>> >> :
        g \in GroupIds,
        a \in {Sentinel, <<"q", ":", "g", "|", "A", "1", "|", "2">>},
        b \in {Sentinel, <<"q", ":", "g", "|", "B", "1">>},
        c \in {Sentinel, <<"q", ":", "g", "|", "C", "1">>} }
    \ { <<g, <<"X">>, <<"g">>, <<"=">>, Sentinel, Sentinel,
          Sentinel \o <<NL>> >> : g \in GroupIds }

\* snakemake.output.tracking_three, tracking_two, tracking_one
OutputPaths == <<"tracking_three.gtf", "tracking_two.gtf", "tracking_one.gtf">>

\* The number of the write call that was given path p.
CallOf(p) == CHOOSE n \in 1..3 : OutputPaths[n] = p

\* main starts: categorize_tracking(snakemake.input.tracking) is called.
InitMatch ==
    /\ IdleCombine
    /\ IdleMain
    /\ IdleAbundance
    /\ tracking \in SeqUpTo(MainTrackingLines, MaxTrack)
    /\ three_match = <<>>
    /\ two_match = <<>>
    /\ no_match = <<>>
    /\ tpos = 0
    /\ tpc = "call"
    /\ annotation = [oxford |-> <<>>, flair |-> <<>>, talon |-> <<>>]
    /\ tracking_dict = <<>>
    /\ oxford = <<>>
    /\ flair = <<>>
    /\ talon = <<>>
    /\ outpath = "none"
    /\ outputs = [n \in {OutputPaths[1], OutputPaths[2], OutputPaths[3]} |->
                     <<StaleLine>>]
    /\ mpos = 0
    /\ mpc = "categorize"

\* oxford = gtf(snakemake.input.oxford)
LoadOxford ==
    /\ mpc = "categorize"
    /\ tpc = "done"
    /\ \E file \in AnnotationFiles(A1) \cup {SplitRecordFile(A1)} :
          /\ annotation' = [annotation EXCEPT !.oxford = file]
          /\ oxford' = GtfDict(file)
    /\ mpc' = "gtf_flair"
    /\ UNCHANGED <<flair, talon, tracking_dict, outpath, outputs, mpos>>

\* flair = gtf(snakemake.input.flair)
LoadFlair ==
    /\ mpc = "gtf_flair"
    /\ \E file \in AnnotationFiles(B1) :
          /\ annotation' = [annotation EXCEPT !.flair = file]
          /\ flair' = GtfDict(file)
    /\ mpc' = "gtf_talon"
    /\ UNCHANGED <<oxford, talon, tracking_dict, outpath, outputs, mpos>>

\* talon = gtf(snakemake.input.talon)
LoadTalon ==
    /\ mpc = "gtf_talon"
    /\ \E file \in AnnotationFiles(C1) :
          /\ annotation' = [annotation EXCEPT !.talon = file]
          /\ talon' = GtfDict(file)
    /\ mpc' = "loaded"
    /\ UNCHANGED <<oxford, flair, tracking_dict, outpath, outputs, mpos>>

\* write(tracking_three, oxford, flair, talon, snakemake.output.tracking_three),
\* then the same with tracking_two, then with tracking_one: the call is
\* entered with its bucket and its path; the three dictionaries are the
\* ones the earlier calls read.
MainWrite ==
    /\ \/ mpc = "loaded"
       \/ mpc = "done" /\ CallOf(outpath) < 3
    /\ LET n == IF mpc = "loaded" THEN 1 ELSE CallOf(outpath) + 1
       IN /\ tracking_dict' = IF n = 1 THEN three_match
                               ELSE IF n = 2 THEN two_match ELSE no_match
          /\ outpath' = OutputPaths[n]
    /\ mpos' = 0
    /\ mpc' = "write"
    /\ UNCHANGED <<annotation, oxford, flair, talon, outputs>>

\* with open(outfile, 'w') as out
WriteOpen ==
    /\ mpc = "write"
    /\ outputs' = [outputs EXCEPT ![outpath] = OpenWrite(@)]
    /\ mpos' = 0
    /\ mpc' = "loop"
    /\ UNCHANGED <<annotation, oxford, flair, talon, tracking_dict, outpath>>

\* One iteration of `for tcons_id, transcipt_ids in tracking_dict.items()`:
\* the record of the selected slot is read from its dictionary and each of
\* its lines is written with the match_id attribute.
WriteGroup ==
    /\ mpc = "loop"
    /\ mpos < Len(tracking_dict)
    /\ LET tcons_id == tracking_dict[mpos + 1].k
           transcipt_ids == tracking_dict[mpos + 1].v
           slot == Selected(transcipt_ids)
           d == IF slot = 1 THEN oxford ELSE IF slot = 2 THEN flair ELSE talon
           lines == DefaultGet(d, transcipt_ids[slot])
           touched == DefaultTouch(d, transcipt_ids[slot])
       IN /\ outputs' = [outputs EXCEPT ![outpath] = @ \o Tagged(lines, tcons_id)]
          /\ oxford' = IF slot = 1 THEN touched ELSE oxford
          /\ flair' = IF slot = 2 THEN touched ELSE flair
          /\ talon' = IF slot = 3 THEN touched ELSE talon
    /\ mpos' = mpos + 1
    /\ UNCHANGED <<annotation, tracking_dict, outpath, mpc>>

\* The loop ends and the output file is closed.
WriteClose ==
    /\ mpc = "loop"
    /\ mpos = Len(tracking_dict)
    /\ mpc' = "done"
    /\ UNCHANGED <<annotation, oxford, flair, talon, tracking_dict, outpath,
                   outputs, mpos>>

\* The variables of the scripts other than gtf and write.
notMatch == <<combineVars, mainVars, abundanceVars, trackingVars>>

NextMatch ==
    \/ CategorizeOpen /\ UNCHANGED notTracking
    \/ CategorizeLine /\ UNCHANGED notTracking
    \/ CategorizeReturn /\ UNCHANGED notTracking
    \/ LoadOxford /\ UNCHANGED notMatch
    \/ LoadFlair /\ UNCHANGED notMatch
    \/ LoadTalon /\ UNCHANGED notMatch
    \/ MainWrite /\ UNCHANGED notMatch
    \/ WriteOpen /\ UNCHANGED notMatch
    \/ WriteGroup /\ UNCHANGED notMatch
    \/ WriteClose /\ UNCHANGED notMatch

SpecMatch == InitMatch /\ [][NextMatch]_vars

\* ================================================= properties of combine
\* Source line i of the current call is a transcript header.
IsHeader(i) == StripNL(GTF[i])[3] = kTranscript

PrimaryId(i) == Unquote(StripNL(GTF[i])[12])

FallbackId(i) == PrimaryId(i) \o <<"_">> \o Unquote(StripNL(GTF[i])[10])

\* The header the dependent line j belongs to: the last header before it,
\* 0 when there is none.
HeaderOf(j) ==
    LET H == {h \in 1..(j - 1) : IsHeader(h)}
    IN IF H = {} THEN 0 ELSE CHOOSE h \in H : \A g \in H : g <= h

\* The indices i, in increasing order, of the lines written to `stream`.
IndicesOf(stream) ==
    LET S == {i \in 1..Len(dest) : dest[i] = stream}
    IN [k \in 1..Cardinality(S) |->
            CHOOSE i \in S : Cardinality({j \in S : j < i}) = k - 1]

\* What this call has added to the quarantine file.
RemovedAdded == SubSeq(removed_out, Len(removed_before) + 1, Len(removed_out))

\* `text` is the source line, as it is or with the count attribute appended.
SameSourceLine(text, line) ==
    \/ text = line
    \/ /\ Len(text) = Len(line) + 2
       /\ SubSeq(text, 1, Len(line)) = StripNL(line)
       /\ text[Len(line) + 1] = kTPM

InCall == pc \in {"loop", "done"}

\* The header i is one the claim sends to quarantine: its resolved count is
\* 0, or neither identifier is in counts.
ShouldQuarantine(i) ==
    IF PrimaryId(i) \in DOMAIN counts THEN counts[PrimaryId(i)].v = 0
    ELSE IF FallbackId(i) \in DOMAIN counts THEN counts[FallbackId(i)].v = 0
    ELSE TRUE

\* C1 (as claimed): a header whose primary identifier is absent from counts
\* and whose fallback identifier has count 0 is written unmodified to the
\* quarantine file, write becomes false, and the dependent lines up to the
\* next header go to the quarantine file.
C1_FallbackZeroQuarantined ==
    InCall =>
      \A i \in 1..Len(dest) :
        ( /\ IsHeader(i)
          /\ PrimaryId(i) \notin DOMAIN counts
          /\ FallbackId(i) \in DOMAIN counts
          /\ counts[FallbackId(i)].v = 0 )
        => /\ dest[i] = "removed_out"
           /\ \E k \in 1..Len(RemovedAdded) : RemovedAdded[k] = GTF[i]
           /\ (i = Len(dest) => ~write)
           /\ \A j \in (i + 1)..Len(dest) :
                 HeaderOf(j) = i /\ ~IsHeader(j) => dest[j] = "removed_out"

\* C2 (as claimed): every header consumed is in exactly one of the two
\* outputs; in the quarantine file exactly when its resolved count is 0 or
\* neither identifier is in counts, and otherwise in the main output with
\* the count attribute appended.
C2_PartitionCompleteness ==
    InCall =>
      \A i \in 1..Len(dest) :
        IsHeader(i) =>
          LET inRemoved == \E k \in 1..Len(RemovedAdded) :
                               RemovedAdded[k] = GTF[i]
              inOutfile == \E k \in 1..Len(outfile) :
                               /\ outfile[k] # GTF[i]
                               /\ SameSourceLine(outfile[k], GTF[i])
          IN /\ inRemoved # inOutfile
             /\ inRemoved <=> ShouldQuarantine(i)

\* Every dependent line consumed is in the file of its header, and in the
\* main output when it has no header.
ExonInheritanceInv ==
    \A j \in 1..Len(dest) :
      ~IsHeader(j) =>
        LET target == IF HeaderOf(j) = 0 THEN "outfile" ELSE dest[HeaderOf(j)]
        IN /\ dest[j] = target
           /\ IF target = "outfile"
              THEN \E k \in 1..Len(outfile) : outfile[k] = GTF[j]
              ELSE \E k \in 1..Len(RemovedAdded) : RemovedAdded[k] = GTF[j]

\* C3: every line that is not a header is written to the output of the most
\* recently preceding header (the main output when there is none), and
\* within a call the flag write changes only in a step that consumes a header.
C3_ExonInheritance ==
    [][ /\ (InCall' => ExonInheritanceInv')
        /\ (pc = "loop" /\ write' # write =>
               /\ pos < Len(GTF)
               /\ StripNL(GTF[pos + 1])[3] = kTranscript
               /\ pos' = pos + 1) ]_vars

\* C3 witness: a quarantined header, then a kept header, then a dependent
\* line, which went to the main output.
C3_Witness ==
    /\ pc = "done"
    /\ Len(GTF) = 3
    /\ IsHeader(1) /\ IsHeader(2) /\ ~IsHeader(3)
    /\ dest = <<"removed_out", "outfile", "outfile">>
    /\ outfile[2] = GTF[3]

\* C9: in a call, every source line consumed so far has been written exactly
\* once, to one of the two outputs, each output holds its lines in source
\* order, and the call ends only when every source line is consumed.
C9_NoLossInOrder ==
    InCall =>
      LET kept == IndicesOf("outfile")
          removed == IndicesOf("removed_out")
      IN /\ Len(outfile) + Len(RemovedAdded) = pos
         /\ Len(outfile) = Len(kept)
         /\ Len(RemovedAdded) = Len(removed)
         /\ \A k \in 1..Len(kept) : SameSourceLine(outfile[k], GTF[kept[k]])
         /\ \A k \in 1..Len(removed) : RemovedAdded[k] = GTF[removed[k]]
         /\ (pc = "done" => pos = Len(GTF))

\* C9 witness: a finished call that interleaved the two outputs: a kept
\* line, a quarantined header, and a kept header after it.
C9_Witness ==
    /\ pc = "done"
    /\ Len(GTF) = 3
    /\ dest = <<"outfile", "removed_out", "outfile">>
    /\ Len(outfile) = 2
    /\ Len(RemovedAdded) = 1

\* C10: when a call of combine ends, the quarantine file holds what it held
\* when the call opened it followed by the lines the call quarantined, the
\* main output holds the lines the call kept and nothing older, and every
\* other file holds what it held before the call.
C10_AppendAcrossCalls ==
    pc = "done" =>
      LET removed == IndicesOf("removed_out")
      IN /\ removed_out =
              removed_before \o [k \in 1..Len(removed) |-> GTF[removed[k]]]
         /\ Len(outfile) = Len(IndicesOf("outfile"))
         /\ \A k \in 1..Len(outfile) :
               \E i \in 1..Len(dest) :
                  dest[i] = "outfile" /\ SameSourceLine(outfile[k], GTF[i])
         /\ \A p \in DOMAIN files \ {output, missing_output} :
               files[p] = before[p]

\* C10 witness: the third call of a run whose three calls pass the same two
\* paths has ended.  The quarantine file held lines of both earlier calls
\* and has grown; the main output held lines of an earlier call and now
\* holds other lines.
C10_Witness ==
    /\ pc = "done"
    /\ reader = "talon"
    /\ \A r \in DOMAIN snakemake_output :
          /\ snakemake_output[r].removed = missing_output
          /\ snakemake_output[r].combined = output
    /\ Len(removed_before) >= 5
    /\ Len(removed_out) > Len(removed_before)
    /\ outfile_before # <<>>
    /\ outfile # <<>>
    /\ outfile # outfile_before

\* =========================================== properties of the readers
\* The data rows of the abundance file, the header line excluded.
DataRows == SubSeq(abundance, 2, Len(abundance))

\* The column (from 0) of the identifier and of the first count field.
IdColumn == IF reader = "talon" THEN 3 ELSE 0

FirstCountColumn == IF reader = "talon" THEN 11 ELSE 1

\* The value of one count field: an empty field is 0, a decimal "n.0" is n.
FieldValue(f) == IF f = <<>> THEN 0 ELSE PyInt(SplitOn(f, ".")[1])

RECURSIVE FieldTotal(_, _)
\* The sum of the count fields of a row from column c (from 0) onward.
FieldTotal(fields, c) ==
    IF c >= Len(fields) THEN 0
    ELSE FieldValue(fields[c + 1]) + FieldTotal(fields, c + 1)

RowTotal(row) == FieldTotal(StripNL(row), FirstCountColumn)

RowId(row) == StripNL(row)[IdColumn + 1]

RECURSIVE RowsTotal(_)
RowsTotal(rows) ==
    IF rows = <<>> THEN 0
    ELSE RowsTotal(DropLast(rows)) + RowTotal(rows[Len(rows)])

RECURSIVE ValuesTotal(_)
\* sum(d.values())
ValuesTotal(d) ==
    IF DOMAIN d = {} THEN 0
    ELSE LET k == CHOOSE x \in DOMAIN d : TRUE
         IN d[k].v + ValuesTotal([x \in DOMAIN d \ {k} |-> d[x]])

\* The last data row that carries the identifier id.
LastRowOf(id) ==
    DataRows[CHOOSE i \in 1..Len(DataRows) :
                 /\ RowId(DataRows[i]) = id
                 /\ \A j \in (i + 1)..Len(DataRows) : RowId(DataRows[j]) # id]

RowIds == {RowId(DataRows[i]) : i \in 1..Len(DataRows)}

\* C7 (as claimed): the values of the returned dictionary sum to the sum of
\* all count fields of all data rows.
C7_SumOfAllRows ==
    apc = "done" => ValuesTotal(adict) = RowsTotal(DataRows)

\* C7 (amended): the returned dictionary has one entry per identifier of the
\* data rows, holding the sum of the count fields of the last row that
\* carries the identifier; so the values sum to the sum of the count fields
\* of those last rows, which is the sum over all data rows when no
\* identifier is repeated.
C7_SumOfLastRows ==
    apc = "done" =>
      /\ DOMAIN adict = RowIds
      /\ \A id \in RowIds : adict[id].v = RowTotal(LastRowOf(id))
      /\ (Cardinality(RowIds) = Len(DataRows) =>
             ValuesTotal(adict) = RowsTotal(DataRows))

\* C7 witness: a reader has returned from a file whose two data rows carry
\* the same identifier with different, non-zero counts.
C7_Witness ==
    /\ apc = "done"
    /\ Len(DataRows) = 2
    /\ RowId(DataRows[1]) = RowId(DataRows[2])
    /\ RowTotal(DataRows[1]) > RowTotal(DataRows[2])
    /\ RowTotal(DataRows[2]) > 0
    /\ ValuesTotal(adict) = RowTotal(DataRows[2])

\* ================================== properties of categorize_tracking
GroupOf(i) == StripNL(tracking[i])[1]

\* The three membership fields of tracking line i.
Membership(i) == SubSeq(StripNL(tracking[i]), 5, 7)

SentinelFields(i) == Cardinality({s \in 1..3 : Membership(i)[s] = Sentinel})

SentinelsIn(triple) == Cardinality({s \in 1..3 : triple[s] = Sentinel})

\* The buckets that hold an item under group identifier g.
BucketsWith(g) ==
    {b \in {"three", "two", "one"} :
        HasKey(IF b = "three" THEN three_match
               ELSE IF b = "two" THEN two_match ELSE no_match, g)}

\* The text of a field after its first '|'.
AfterFirstBar(f) ==
    LET k == CHOOSE i \in 1..Len(f) :
                 f[i] = "|" /\ \A j \in 1..(i - 1) : f[j] # "|"
    IN SubSeq(f, k + 1, Len(f))

\* The text of a field between its first '|' and the next '|', or the end of
\* the field when there is no other.
BetweenBars(f) ==
    LET rest == AfterFirstBar(f)
        stops == {i \in 1..Len(rest) : rest[i] = "|"}
    IN IF stops = {} THEN rest
       ELSE SubSeq(rest, 1, (CHOOSE i \in stops : \A j \in stops : i <= j) - 1)

\* C5 (as claimed): when the categorizer returns, every input line is
\* represented in exactly one bucket and the three sizes add up to the number
\* of input lines.
C5_Partition ==
    tpc = "done" =>
      /\ \A i \in 1..Len(tracking) : Cardinality(BucketsWith(GroupOf(i))) = 1
      /\ Len(three_match) + Len(two_match) + Len(no_match) = Len(tracking)

\* C5 (amended): the same, for tracking files whose group identifiers
\* (field 0) are pairwise distinct.
C5_PartitionDistinctGroups ==
    ( /\ tpc = "done"
      /\ \A i, j \in 1..Len(tracking) : GroupOf(i) = GroupOf(j) => i = j )
    => /\ \A i \in 1..Len(tracking) :
             Cardinality(BucketsWith(GroupOf(i))) = 1
       /\ Len(three_match) + Len(two_match) + Len(no_match) = Len(tracking)

\* C5 witness: two lines with different group identifiers have been put in
\* the same bucket.
C5_Witness ==
    /\ tpc = "done"
    /\ Len(tracking) = 2
    /\ GroupOf(1) # GroupOf(2)
    /\ Len(two_match) = 2

\* Every line has at most two sentinel fields.
AtMostTwoSentinels == \A i \in 1..Len(tracking) : SentinelFields(i) <= 2

\* Every item of bucket d is keyed by field 0 of a line of the file and
\* holds a triple with n sentinels made from that line's fields by Text.
ItemsAsClaimed(d, n, Text(_)) ==
    \A e \in 1..Len(d) :
      /\ SentinelsIn(d[e].v) = n
      /\ \E i \in 1..Len(tracking) :
            /\ GroupOf(i) = d[e].k
            /\ d[e].v = [s \in 1..3 |->
                           IF Membership(i)[s] = Sentinel THEN Sentinel
                           ELSE Text(Membership(i)[s])]

\* C8 (as claimed): with at most two sentinels per line, the items of
\* fullMatch have no sentinel in their triple, those of partialTwo one, those
\* of partialOne two, and a triple holds '-' for an absent slot and the text
\* after the first '|' for a present slot.
C8_BucketBySentinelCount ==
    (tpc = "done" /\ AtMostTwoSentinels) =>
      /\ ItemsAsClaimed(three_match, 0, AfterFirstBar)
      /\ ItemsAsClaimed(two_match, 1, AfterFirstBar)
      /\ ItemsAsClaimed(no_match, 2, AfterFirstBar)

\* Every item of bucket d comes from the last line that has its key and n
\* sentinel fields, and holds '-' for a sentinel field and, for any other
\* field, the text between its first '|' and the next.
ItemsFromLines(d, n) ==
    \A e \in 1..Len(d) :
      LET L == {i \in 1..Len(tracking) :
                   GroupOf(i) = d[e].k /\ SentinelFields(i) = n}
      IN /\ L # {}
         /\ LET i == CHOOSE x \in L : \A y \in L : y <= x
            IN d[e].v = [s \in 1..3 |->
                           IF Membership(i)[s] = Sentinel THEN Sentinel
                           ELSE BetweenBars(Membership(i)[s])]

\* C8 (amended): with at most two sentinels per line, the items of fullMatch
\* come from lines with no sentinel field, those of partialTwo from lines
\* with one, those of partialOne from lines with two; an item is keyed by
\* field 0 and its triple holds '-' for an absent slot and, for a present
\* slot, the text between the first '|' and the next '|' of the field.
C8_BucketBySentinelFields ==
    (tpc = "done" /\ AtMostTwoSentinels) =>
      /\ ItemsFromLines(three_match, 0)
      /\ ItemsFromLines(two_match, 1)
      /\ ItemsFromLines(no_match, 2)

\* C8 witness: a line with one sentinel whose first field has two '|' has
\* been put in partialTwo under the text between them.
C8_Witness ==
    /\ tpc = "done"
    /\ AtMostTwoSentinels
    /\ Len(tracking) = 1
    /\ Membership(1) = << <<"q", ":", "g", "|", "A", "1", "|", "2">>,
                          <<"q", ":", "g", "|", "B", "1">>, Sentinel >>
    /\ two_match =
          <<[k |-> GroupOf(1), v |-> << <<"A", "1">>, <<"B", "1">>, Sentinel >>]>>

\* ======================================== properties of gtf and write
\* The file and the slot's transcript of group e of the bucket, for the
\* first slot, in the order A, B, C, that is not the sentinel.
FirstPresent(e) ==
    LET ids == tracking_dict[e].v
    IN CHOOSE s \in 1..3 :
          ids[s] # Sentinel /\ \A r \in 1..(s - 1) : ids[r] = Sentinel

FileOfSlot(s) ==
    IF s = 1 THEN annotation.oxford
    ELSE IF s = 2 THEN annotation.flair ELSE annotation.talon

\* Line i of `file` belongs to the index: neither a comment nor a gene line.
Indexed(file, i) ==
    /\ file[i][1][1] # "#"
    /\ file[i][3] # kGene

RECURSIVE RecordOf(_, _)
\* The indexed lines of `file` that carry the transcript identifier id, in
\* file order, each without its terminator and with the match_id attribute
\* left to add.
RecordOf(file, id) ==
    IF file = <<>> THEN <<>>
    ELSE LET i == Len(file)
             rest == RecordOf(DropLast(file), id)
         IN IF Indexed(file, i) /\ StripNL(file[i])[12] = Quoted(id)
            THEN Append(rest, StripNL(file[i]))
            ELSE rest

RECURSIVE Expected(_)
\* What the claim has write emit for the first n groups of the bucket.
Expected(n) ==
    IF n = 0 THEN <<>>
    ELSE LET rec == RecordOf(FileOfSlot(FirstPresent(n)),
                             tracking_dict[n].v[FirstPresent(n)])
         IN Expected(n - 1) \o
            [i \in 1..Len(rec) |->
                rec[i] \o <<kMatchId,
                            Quoted(tracking_dict[n].k) \o <<NL>> >>]

\* C4 (as claimed): write does not run to completion on a bucket that has a
\* group whose selected identifier is absent from its pipeline's index.
C4_MissingRecordFails ==
    mpc = "done" =>
      \A e \in 1..Len(tracking_dict) :
        RecordOf(FileOfSlot(FirstPresent(e)),
                 tracking_dict[e].v[FirstPresent(e)]) # <<>>

\* C6: after every group written, the output holds, group after group in
\* bucket order, the lines of the record indexed under the group's first
\* present identifier (A, then B, then C), in the record's order, each with
\* ' match_id "<group>";' appended, and no other line.
C6_OneRepresentative ==
    mpc \in {"loop", "done"} => out = Expected(mpos)

\* C6 witness: write has finished a bucket whose group has all three
\* identifiers, all three records exist, and the output is the two lines of
\* pipeline A's record.
C6_Witness ==
    /\ mpc = "done"
    /\ Len(tracking_dict) = 1
    /\ tracking_dict[1].v = <<A1, B1, C1>>
    /\ Len(oxford[A1]) = 2
    /\ B1 \in DOMAIN flair /\ Len(flair[B1]) = 2
    /\ C1 \in DOMAIN talon /\ Len(talon[C1]) = 2
    /\ Len(out) = 2
    /\ out[1][12] = Quoted(A1)
    /\ out[2][3] = kExon

====
